---- MODULE Spec2Model ----
(***************************************************************************)
(* discord-fs: the in-memory FUSE file system of src/src/main.rs.          *)
(* State: the three hash maps of struct FS and the inode counter.  One     *)
(* action per Filesystem callback, and one for the session loop of          *)
(* fuser::mount2 taking the next request once a reply is out.  A Rust panic *)
(* inside a callback unwinds out of main and ends the process: its reply is *)
(* "abort", and no request is served after it.                              *)
(***************************************************************************)
EXTENDS Integers, Sequences, FiniteSets, TLC

\* ---------------------------------------------------------------- bounds
\* mknod is served while last_inode < MaxInode
MaxInode == 4
\* at most MaxWrites successful writes in a run
MaxWrites == 1
\* a readdir reply buffer holds between 1 and MaxCap entries
MaxCap == 2

\* -------------------------------------------------------- input domains
Names == {".", "hello.txt", "amongus.txt", "f"}
Parents == {1, 2}
Inodes == 0 .. MaxInode
ReadOffsets == {0, 13, 100}
WriteOffsets == {0, 1, 100}
\* "abc"
WriteData == {<<97, 98, 99>>}
DirOffsets == 0 .. (Cardinality(Names) + 1)
Caps == 1 .. MaxCap
\* S_IFREG | 0o644 and S_IFIFO | 0o644
Modes == {33188, 4516}

\* ------------------------------------------------------------ constants
\* "Hello, World!"
HelloBytes == <<72, 101, 108, 108, 111, 44, 32, 87, 111, 114, 108, 100, 33>>
\* "YOOO I DID IT LETS GOOO"
AmongusBytes == <<89, 79, 79, 79, 32, 73, 32, 68, 73, 68, 32, 73, 84, 32,
                  76, 69, 84, 83, 32, 71, 79, 79, 79>>

ROOT_DIR_ATTR ==
  [ino |-> 1, size |-> 0, blocks |-> 0, kind |-> "Directory",
   perm |-> 493, nlink |-> 2, uid |-> 502, gid |-> 20]

\* placeholder of the attr field of a reply that carries no attributes
NoAttr ==
  [ino |-> 0, size |-> 0, blocks |-> 0, kind |-> "None",
   perm |-> 0, nlink |-> 0, uid |-> 0, gid |-> 0]

\* ------------------------------------------------------------- helpers
\* HashMap::insert: insert or overwrite
Put(f, k, v) == [x \in (DOMAIN f) \cup {k} |-> IF x = k THEN v ELSE f[x]]

\* HashMap::remove
Remove(f, k) == [x \in (DOMAIN f) \ {k} |-> f[x]]

EmptyMap == [x \in {} |-> 0]

Range(s) == {s[i] : i \in DOMAIN s}

Min(a, b) == IF a < b THEN a ELSE b

\* the sequences of k distinct elements of S
DistinctSeqs(S, k) ==
  {s \in [1 .. k -> S] : \A i, j \in 1 .. k : s[i] = s[j] => i = j}

\* ------------------------------------------------------------- replies
Rep(status, attr, data, count, entries) ==
  [status |-> status, attr |-> attr, data |-> data, count |-> count,
   entries |-> entries]

ReplyError == Rep("ENOENT", NoAttr, <<>>, 0, <<>>)
ReplyAbort == Rep("abort", NoAttr, <<>>, 0, <<>>)
ReplyAttr(a) == Rep("ok", a, <<>>, 0, <<>>)
ReplyData(d) == Rep("ok", NoAttr, d, 0, <<>>)
ReplyWritten(n) == Rep("ok", NoAttr, <<>>, n, <<>>)
ReplyDir(es) == Rep("ok", NoAttr, <<>>, 0, es)
ReplyEmpty == Rep("ok", NoAttr, <<>>, 0, <<>>)
\* no reply is out: the session loop waits for a request
ReplyNone == Rep("none", NoAttr, <<>>, 0, <<>>)

\* a request: ino is the inode or the parent inode it names
Call(op, ino, name, offset, data, cap, mode) ==
  [op |-> op, ino |-> ino, name |-> name, offset |-> offset, data |-> data,
   cap |-> cap, mode |-> mode]

NoCall == Call("none", 0, "", 0, <<>>, 0, 0)

\* ------------------------------------------------------------ FS helpers
\* FS::default
default ==
  [lt |-> Put(EmptyMap, ".", ROOT_DIR_ATTR),
   dt |-> EmptyMap,
   pt |-> Put(EmptyMap, 0, "."),
   li |-> 1]

\* add_file without self.last_inode = new_inode
add_file_keeps_inode(fs, name, data) ==
  LET new_inode == fs.li + 1
      attr == [ino |-> new_inode, size |-> Len(data),
               blocks |-> (Len(data) \div 512) + 1, kind |-> "RegularFile",
               perm |-> 493, nlink |-> 2, uid |-> 501, gid |-> 20]
  IN [lt |-> Put(fs.lt, name, attr),
      dt |-> Put(fs.dt, new_inode, data),
      pt |-> Put(fs.pt, new_inode, name),
      li |-> fs.li,
      attr |-> attr]

\* add_file without path_table.insert
add_file_no_path(fs, name, data) ==
  LET new_inode == fs.li + 1
      attr == [ino |-> new_inode, size |-> Len(data),
               blocks |-> (Len(data) \div 512) + 1, kind |-> "RegularFile",
               perm |-> 493, nlink |-> 2, uid |-> 501, gid |-> 20]
  IN [lt |-> Put(fs.lt, name, attr),
      dt |-> Put(fs.dt, new_inode, data),
      pt |-> fs.pt,
      li |-> new_inode,
      attr |-> attr]

\* FS::add_file on the state fs = [lt, dt, pt, li]; attr is the record returned
add_file(fs, name, data) ==
  LET new_inode == fs.li + 1
      attr == [ino |-> new_inode, size |-> Len(data),
               blocks |-> (Len(data) \div 512) + 1, kind |-> "RegularFile",
               perm |-> 493, nlink |-> 2, uid |-> 501, gid |-> 20]
  IN [lt |-> Put(fs.lt, name, attr),
      dt |-> Put(fs.dt, new_inode, data),
      pt |-> Put(fs.pt, new_inode, name),
      li |-> new_inode,
      attr |-> attr]

\* the loop of FS::update_fs_size: the blob lengths of the entries keyed by ks
RECURSIVE sum_sizes(_, _, _)
sum_sizes(lt, dt, ks) ==
  IF ks = {} THEN 0
  ELSE LET k == CHOOSE x \in ks : TRUE
           rest == sum_sizes(lt, dt, ks \ {k})
       IN IF lt[k].ino \in DOMAIN dt THEN Len(dt[lt[k].ino]) + rest ELSE rest

\* FS::update_fs_size panics on lookup_table.get(".").unwrap()
update_fs_size_panics(lt) == "." \notin DOMAIN lt

RECURSIVE sum_blobs(_, _)
sum_blobs(dt, is) ==
  IF is = {} THEN 0
  ELSE LET i == CHOOSE x \in is : TRUE
       IN Len(dt[i]) + sum_blobs(dt, is \ {i})

\* update_fs_size iterating over data_table instead of lookup_table
update_fs_size_all_blobs(lt, dt) ==
  LET size == sum_blobs(dt, DOMAIN dt)
  IN Put(lt, ".", [lt["."] EXCEPT !.size = size, !.blocks = (size \div 512) + 1])

\* update_fs_size with the sum started at the root's present size
update_fs_size_accumulates(lt, dt) ==
  LET size == lt["."].size + sum_sizes(lt, dt, DOMAIN lt)
  IN Put(lt, ".", [lt["."] EXCEPT !.size = size, !.blocks = (size \div 512) + 1])

\* FS::update_fs_size, when it does not panic: the new lookup_table
update_fs_size(lt, dt) ==
  LET size == sum_sizes(lt, dt, DOMAIN lt)
  IN Put(lt, ".", [lt["."] EXCEPT !.size = size, !.blocks = (size \div 512) + 1])

\* the state main hands to fuser::mount2
main ==
  LET a == add_file(default, "hello.txt", HelloBytes)
      b == add_file(a, "amongus.txt", AmongusBytes)
  IN [lt |-> b.lt, dt |-> b.dt, pt |-> b.pt, li |-> b.li]

\* ---------------------------------------------------------------- state
\* lookup_table, data_table, path_table, last_inode: the fields of struct FS.
\* call, reply: the request being answered and its reply (NoCall, ReplyNone
\* while the session loop waits).  nwrites counts the successful writes.
\* iter_order, pg: see readdir.
VARIABLES lookup_table, data_table, path_table, last_inode,
          call, reply, nwrites, iter_order, pg

vars == <<lookup_table, data_table, path_table, last_inode,
          call, reply, nwrites, iter_order, pg>>

\* pagination bookkeeping of the readdir caller: the pages received since the
\* last readdir(1, 0), the cookie of the last entry received, and whether an
\* empty page has ended the listing
PgOff == [on |-> FALSE, acc |-> <<>>, cookie |-> 0, done |-> FALSE]

Init ==
  /\ lookup_table = main.lt
  /\ data_table = main.dt
  /\ path_table = main.pt
  /\ last_inode = main.li
  /\ call = NoCall
  /\ reply = ReplyNone
  /\ nwrites = 0
  /\ iter_order = <<>>
  /\ pg = PgOff

\* the process has been ended by a panic
crashed == reply.status = "abort"

\* the session loop is ready to dispatch a request
Idle == reply.status = "none"

\* struct FS as a record
FS ==
  [lt |-> lookup_table, dt |-> data_table, pt |-> path_table,
   li |-> last_inode]

\* the outcome of a callback: struct FS after it, and its reply
Outcome(lt, dt, pt, li, rep) ==
  [lt |-> lt, dt |-> dt, pt |-> pt, li |-> li, reply |-> rep]

\* the outcome of a callback that writes nothing
Untouched(rep) ==
  Outcome(lookup_table, data_table, path_table, last_inode, rep)

\* the step of a callback with request c and outcome r
Apply(c, r) ==
  /\ Idle
  /\ call' = c
  /\ reply' = r.reply
  /\ lookup_table' = r.lt
  /\ data_table' = r.dt
  /\ path_table' = r.pt
  /\ last_inode' = r.li
  /\ nwrites' = IF c.op = "write" /\ r.reply.status = "ok"
                THEN nwrites + 1 ELSE nwrites

\* a callback other than readdir: the caller's listing is no longer followed
NoListing == iter_order' = <<>> /\ pg' = PgOff

\* ------------------------------------------------ outcomes of callbacks
\* FS::lookup
lookup_reply(parent, name) ==
  IF parent # 1 THEN ReplyError
  ELSE IF name \notin DOMAIN lookup_table THEN ReplyError
  ELSE ReplyAttr(lookup_table[name])

\* FS::getattr: the first value of the iteration with v.ino = ino, the
\* iteration order being any
getattr_replies(ino) ==
  IF \E k \in DOMAIN lookup_table : lookup_table[k].ino = ino
  THEN {ReplyAttr(lookup_table[k]) :
          k \in {x \in DOMAIN lookup_table : lookup_table[x].ino = ino}}
  ELSE {ReplyError}

\* FS::read: &data[offset..] panics when offset > data.len()
read_reply(ino, offset) ==
  IF ino \notin DOMAIN data_table THEN ReplyError
  ELSE IF offset > Len(data_table[ino]) THEN ReplyAbort
  ELSE ReplyData(SubSeq(data_table[ino], offset + 1, Len(data_table[ino])))

\* FS::setattr: path_table[&ino] and lookup_table[path] panic on a missing key
setattr_reply(ino) ==
  IF ino \notin DOMAIN path_table THEN ReplyAbort
  ELSE IF path_table[ino] \notin DOMAIN lookup_table THEN ReplyAbort
  ELSE ReplyAttr(lookup_table[path_table[ino]])

\* mknod creating an empty blob
mknod_outcome_empty(parent, name, mode) ==
  LET r == add_file(FS, name, <<>>)
  IN Outcome(r.lt, r.dt, r.pt, r.li, ReplyAttr(r.attr))

\* FS::mknod: _parent, _mode, _umask and _rdev are not read
mknod_outcome(parent, name, mode) ==
  LET r == add_file(FS, name, <<0>>)
  IN Outcome(r.lt, r.dt, r.pt, r.li, ReplyAttr(r.attr))

\* unlink looking the name up with get instead of remove
unlink_outcome_keeps(parent, name) ==
  IF name \in DOMAIN lookup_table THEN Untouched(ReplyEmpty)
  ELSE Untouched(ReplyError)

\* FS::unlink: _parent is not read
unlink_outcome(parent, name) ==
  IF name \in DOMAIN lookup_table
  THEN Outcome(Remove(lookup_table, name), data_table, path_table, last_inode,
               ReplyEmpty)
  ELSE Untouched(ReplyError)

\* the common body of FS::open, FS::flush and FS::release
recompute_outcome(ino) ==
  IF ino \notin DOMAIN data_table THEN Untouched(ReplyError)
  ELSE IF update_fs_size_panics(lookup_table) THEN Untouched(ReplyAbort)
  ELSE Outcome(update_fs_size(lookup_table, data_table), data_table,
               path_table, last_inode, ReplyEmpty)

\* FS::open
open_outcome(ino) == recompute_outcome(ino)

\* FS::flush
flush_outcome(ino) == recompute_outcome(ino)

\* FS::release
release_outcome(ino) == recompute_outcome(ino)

\* the loop of FS::write: existing_data.insert(offset + i, data[i]) for i = 0..
RECURSIVE insert_bytes(_, _, _, _)
insert_bytes(existing, offset, data, i) ==
  IF i > Len(data) THEN existing
  ELSE insert_bytes(
         SubSeq(existing, 1, offset + i - 1) \o <<data[i]>>
           \o SubSeq(existing, offset + i, Len(existing)),
         offset, data, i + 1)

\* Vec::insert panics when the index exceeds the length
insert_panics(existing, offset, data) ==
  Len(data) > 0 /\ offset > Len(existing)

\* the attributes record after the size update of FS::write
grow_size(attrs, offset, data) ==
  IF Len(data) + offset > attrs.size
  THEN [attrs EXCEPT !.size = Len(data) + offset]
  ELSE attrs

\* write growing attrs.size before it looks for the blob
write_outcome_late_check(ino, offset, data) ==
  IF \/ ino \notin DOMAIN path_table
     \/ path_table[ino] \notin DOMAIN lookup_table
  THEN Untouched(ReplyError)
  ELSE IF ino \notin DOMAIN data_table
  THEN Outcome(Put(lookup_table, path_table[ino],
                   grow_size(lookup_table[path_table[ino]], offset, data)),
               data_table, path_table, last_inode, ReplyError)
  ELSE IF insert_panics(data_table[ino], offset, data)
  THEN Untouched(ReplyAbort)
  ELSE LET path == path_table[ino]
           dt == Put(data_table, ino,
                     insert_bytes(data_table[ino], offset, data, 1))
           lt == Put(lookup_table, path,
                     grow_size(lookup_table[path], offset, data))
       IN IF update_fs_size_panics(lt)
          THEN Outcome(lt, dt, path_table, last_inode, ReplyAbort)
          ELSE Outcome(update_fs_size(lt, dt), dt, path_table, last_inode,
                       ReplyWritten(Len(data)))

\* FS::write
write_outcome(ino, offset, data) ==
  IF \/ ino \notin DOMAIN path_table
     \/ path_table[ino] \notin DOMAIN lookup_table
     \/ ino \notin DOMAIN data_table
  THEN Untouched(ReplyError)
  ELSE IF insert_panics(data_table[ino], offset, data)
  THEN Untouched(ReplyAbort)
  ELSE LET path == path_table[ino]
           dt == Put(data_table, ino,
                     insert_bytes(data_table[ino], offset, data, 1))
           lt == Put(lookup_table, path,
                     grow_size(lookup_table[path], offset, data))
       IN IF update_fs_size_panics(lt)
          THEN Outcome(lt, dt, path_table, last_inode, ReplyAbort)
          ELSE Outcome(update_fs_size(lt, dt), dt, path_table, last_inode,
                       ReplyWritten(Len(data)))

\* the entries vector of FS::readdir under the iteration order ord
dir_entries(ord) ==
  <<[ino |-> 1, kind |-> "Directory", name |-> ".."]>> \o
  [i \in 1 .. Len(ord) |->
     [ino |-> lookup_table[ord[i]].ino, kind |-> "RegularFile", name |-> ord[i]]]

\* the loop of FS::readdir: entries from index offset (0-based) on, each with
\* cookie i + 1, until reply.add reports the buffer full (the entry it was
\* offered is then not in the reply)
RECURSIVE dir_page(_, _, _)
dir_page(entries, i, room) ==
  IF i >= Len(entries) \/ room = 0 THEN <<>>
  ELSE <<[ino |-> entries[i + 1].ino, kind |-> entries[i + 1].kind,
          name |-> entries[i + 1].name, cookie |-> i + 1]>>
       \o dir_page(entries, i + 1, room - 1)

\* The iteration order of lookup_table is whatever the HashMap makes it, and
\* it is the same at every iteration of an unmodified map.  iter_order is the
\* part of it the caller has seen so far; a readdir that delivers entries
\* beyond it extends it by any distinct keys not seen yet.
iter_need(offset, cap) ==
  LET n == Cardinality(DOMAIN lookup_table)
  IN IF offset > n THEN 0 ELSE Min(offset + cap - 1, n)

iter_orders(offset, cap) ==
  LET need == iter_need(offset, cap)
  IN IF need <= Len(iter_order) THEN {iter_order}
     ELSE {iter_order \o ext :
             ext \in DistinctSeqs((DOMAIN lookup_table) \ Range(iter_order),
                                  need - Len(iter_order))}

\* readdir with .skip(offset as usize + 1)
readdir_reply_skips(ino, offset, cap, ord) ==
  IF ino # 1 THEN ReplyError
  ELSE ReplyDir(dir_page(dir_entries(ord), offset + 1, cap))

\* FS::readdir under the iteration order ord
readdir_reply(ino, offset, cap, ord) ==
  IF ino # 1 THEN ReplyError
  ELSE ReplyDir(dir_page(dir_entries(ord), offset, cap))

\* the caller's bookkeeping after receiving page for readdir(1, offset)
pg_next(offset, page) ==
  IF offset = 0
  THEN [on |-> TRUE, acc |-> page,
        cookie |-> IF page = <<>> THEN 0 ELSE page[Len(page)].cookie,
        done |-> page = <<>>]
  ELSE IF pg.on /\ ~pg.done /\ offset = pg.cookie
  THEN [on |-> TRUE, acc |-> pg.acc \o page,
        cookie |-> IF page = <<>> THEN pg.cookie ELSE page[Len(page)].cookie,
        done |-> page = <<>>]
  ELSE PgOff

\* -------------------------------------------------------------- actions
lookup(parent, name) ==
  /\ Apply(Call("lookup", parent, name, 0, <<>>, 0, 0),
           Untouched(lookup_reply(parent, name)))
  /\ NoListing

getattr(ino) ==
  /\ \E rep \in getattr_replies(ino) :
       Apply(Call("getattr", ino, "", 0, <<>>, 0, 0), Untouched(rep))
  /\ NoListing

read(ino, offset) ==
  /\ Apply(Call("read", ino, "", offset, <<>>, 0, 0),
           Untouched(read_reply(ino, offset)))
  /\ NoListing

readdir(ino, offset, cap) ==
  IF ino # 1
  THEN /\ Apply(Call("readdir", ino, "", offset, <<>>, cap, 0),
                Untouched(readdir_reply(ino, offset, cap, <<>>)))
       /\ NoListing
  ELSE \E ord \in iter_orders(offset, cap) :
         /\ Apply(Call("readdir", ino, "", offset, <<>>, cap, 0),
                  Untouched(readdir_reply(ino, offset, cap, ord)))
         /\ iter_order' = ord
         /\ pg' = pg_next(offset, readdir_reply(ino, offset, cap, ord).entries)

mknod(parent, name, mode) ==
  /\ last_inode < MaxInode
  /\ Apply(Call("mknod", parent, name, 0, <<>>, 0, mode),
           mknod_outcome(parent, name, mode))
  /\ NoListing

unlink(parent, name) ==
  /\ Apply(Call("unlink", parent, name, 0, <<>>, 0, 0),
           unlink_outcome(parent, name))
  /\ NoListing

open(ino) ==
  /\ Apply(Call("open", ino, "", 0, <<>>, 0, 0), open_outcome(ino))
  /\ NoListing

write(ino, offset, data) ==
  /\ nwrites < MaxWrites
  /\ Apply(Call("write", ino, "", offset, data, 0, 0),
           write_outcome(ino, offset, data))
  /\ NoListing

flush(ino) ==
  /\ Apply(Call("flush", ino, "", 0, <<>>, 0, 0), flush_outcome(ino))
  /\ NoListing

release(ino) ==
  /\ Apply(Call("release", ino, "", 0, <<>>, 0, 0), release_outcome(ino))
  /\ NoListing

setattr(ino) ==
  /\ Apply(Call("setattr", ino, "", 0, <<>>, 0, 0), Untouched(setattr_reply(ino)))
  /\ NoListing

\* the session loop of fuser::mount2: the reply is out, the next request is
\* taken (never after a panic)
next_request ==
  /\ reply.status \in {"ok", "ENOENT"}
  /\ call' = NoCall
  /\ reply' = ReplyNone
  /\ UNCHANGED <<lookup_table, data_table, path_table, last_inode, nwrites,
                 iter_order, pg>>

Next ==
  \/ \E p \in Parents, n \in Names : lookup(p, n)
  \/ \E i \in Inodes : getattr(i)
  \/ \E i \in Inodes, o \in ReadOffsets : read(i, o)
  \/ \E i \in Inodes : readdir(i, 0, 1)
  \/ \E p \in Parents, n \in Names, m \in Modes : mknod(p, n, m)
  \/ \E p \in Parents, n \in Names : unlink(p, n)
  \/ \E i \in Inodes : open(i)
  \/ \E i \in Inodes, o \in WriteOffsets, d \in WriteData : write(i, o, d)
  \/ \E i \in Inodes : flush(i)
  \/ \E i \in Inodes : release(i)
  \/ \E i \in Inodes : setattr(i)
  \/ next_request

Spec == Init /\ [][Next]_vars

\* the callbacks that decide a directory listing: the name space changes by
\* mknod and unlink only, and readdir pages through it
NextDir ==
  \/ \E p \in Parents, n \in Names, m \in Modes : mknod(p, n, m)
  \/ \E p \in Parents, n \in Names : unlink(p, n)
  \/ \E i \in Parents, o \in DirOffsets, c \in Caps : readdir(i, o, c)
  \/ next_request

SpecDir == Init /\ [][NextDir]_vars

\* ================================================================ claims
\* the inodes of the current namespace entries
LiveInodes == {lookup_table[k].ino : k \in DOMAIN lookup_table}

\* the byte lengths of the blobs of the inodes is, summed
RECURSIVE BlobBytes(_)
BlobBytes(is) ==
  IF is = {} THEN 0
  ELSE LET i == CHOOSE x \in is : TRUE
       IN Len(data_table[i]) + BlobBytes(is \ {i})

\* the tables and the allocator
stores == <<lookup_table, data_table, path_table, last_inode>>

\* C1: in every reachable state in which requests are served, getattr(1)
\* succeeds and returns a record of kind directory with inode 1
C1_RootIsDirectory ==
  ~crashed =>
    \A r \in getattr_replies(1) :
      r.status = "ok" /\ r.attr.kind = "Directory" /\ r.attr.ino = 1

\* C2: right after a successful open, flush, release or write the record
\* keyed "." (the root's) has as size the sum of the blob lengths of the
\* inodes that have a namespace entry; blobs of unlinked or replaced inodes
\* are not counted
C2_RootSizeIsLiveBytes ==
  (call.op \in {"open", "flush", "release", "write"} /\ reply.status = "ok") =>
    /\ "." \in DOMAIN lookup_table
    /\ lookup_table["."].size = BlobBytes(LiveInodes \cap DOMAIN data_table)

\* a successful recomputation while a blob without namespace entry exists
C2_Witness ==
  /\ call.op \in {"open", "flush", "release", "write"}
  /\ reply.status = "ok"
  /\ (DOMAIN data_table) \ LiveInodes # {}
  /\ lookup_table["."].size > 0

\* overwrite-at-offset: old with positions offset+1 .. offset+Len(bytes)
\* replaced by bytes, longer only if the written range ends beyond old
Overwrite(old, offset, bytes) ==
  LET end == offset + Len(bytes)
      n == IF end > Len(old) THEN end ELSE Len(old)
  IN [i \in 1 .. n |->
        IF i > offset /\ i <= end THEN bytes[i - offset] ELSE old[i]]

\* C3: a successful write leaves the blob of its inode as overwrite-at-offset
\* makes it
C3_WriteOverwrites ==
  [][(call'.op = "write" /\ reply'.status = "ok") =>
       data_table'[call'.ino] =
         Overwrite(data_table[call'.ino], call'.offset, call'.data)]_vars

\* C4: read of an inode of data_table replies the bytes from offset to the
\* end of the blob, none when offset is at or beyond the end, and never
\* aborts
C4_ReadClamped ==
  (call.op = "read" /\ call.ino \in DOMAIN data_table) =>
    reply = ReplyData(
      IF call.offset >= Len(data_table[call.ino]) THEN <<>>
      ELSE SubSeq(data_table[call.ino], call.offset + 1,
                  Len(data_table[call.ino])))

\* an open of a seeded file has been answered and no file was created,
\* removed or written since the mount
FirstOpen ==
  /\ call.op = "open"
  /\ call.ino \in DOMAIN main.dt
  /\ reply.status = "ok"
  /\ data_table = main.dt
  /\ path_table = main.pt
  /\ last_inode = main.li
  /\ DOMAIN lookup_table = DOMAIN main.lt
  /\ \A k \in (DOMAIN main.lt) \ {"."} : lookup_table[k] = main.lt[k]

\* C5 as stated: after the first open of a seeded file getattr(1).size is 37
C5_SeedSize37 ==
  FirstOpen => \A r \in getattr_replies(1) : r.status = "ok" /\ r.attr.size = 37

\* C5: after the first open of a seeded file getattr(1).size is 36, the
\* payloads being 13 and 23 bytes long
C5_SeedSize36 ==
  FirstOpen => \A r \in getattr_replies(1) : r.status = "ok" /\ r.attr.size = 36

C5_Witness == FirstOpen /\ call.ino = 3

\* the listing is complete: pages were asked for from offset 0 on, each at
\* the cookie of the last entry received, with no other callback in between,
\* and the last page came back empty
ListingDone == pg.on /\ pg.done /\ call.op = "readdir" /\ reply.status = "ok"

\* the names of the entries received
ListedNames == {pg.acc[i].name : i \in 1 .. Len(pg.acc)}

\* C6 as stated: the complete listing holds ".." and every namespace entry
\* but the root's own ".", once each, and nothing else
C6_ListingWithoutRoot ==
  ListingDone =>
    /\ ListedNames = {".."} \cup ((DOMAIN lookup_table) \ {"."})
    /\ Len(pg.acc) = Cardinality(ListedNames)

\* C6: the complete listing is the entry (1, "..") and then one entry per
\* namespace entry, the root's own "." among them, each once with the inode
\* of its record, and nothing else
C6_ListingWithRoot ==
  ListingDone =>
    /\ Len(pg.acc) = Cardinality(DOMAIN lookup_table) + 1
    /\ pg.acc[1].name = ".." /\ pg.acc[1].ino = 1
    /\ {pg.acc[i].name : i \in 2 .. Len(pg.acc)} = DOMAIN lookup_table
    /\ \A i \in 2 .. Len(pg.acc) :
         pg.acc[i].ino = lookup_table[pg.acc[i].name].ino

\* a listing of five entries, complete after more than two pages
C6_Witness ==
  /\ ListingDone
  /\ Len(pg.acc) = 5
  /\ call.offset = 5
  /\ "." \in ListedNames

\* C7: mknod and unlink under a parent other than 1 reply EntryNotFound and
\* leave the tables and the allocator as they were
C7_OnlyUnderRoot ==
  [][(call'.op \in {"mknod", "unlink"} /\ call'.ino # 1) =>
       (reply' = ReplyError /\ UNCHANGED stores)]_vars

\* C8: every callback ends with a success reply or EntryNotFound, never with
\* the process aborted
C8_NoAbort == reply.status \in {"none", "ok", "ENOENT"}

\* C9: setattr of an inode that getattr finds replies the record getattr
\* replies and leaves the tables and the allocator as they were
C9_SetattrIsGetattr ==
  [][(call'.op = "setattr" /\ getattr_replies(call'.ino) # {ReplyError}) =>
       (reply' \in getattr_replies(call'.ino) /\ UNCHANGED stores)]_vars

\* C10: right after mknod(1, f) replied a record with inode n, getattr(n)
\* replies that record, of kind regular file and size 1, lookup(1, f) replies
\* it too, and the blob of n is one zero byte, whatever mode was asked for
C10_MknodRecord ==
  (call.op = "mknod" /\ call.ino = 1) =>
    /\ reply.status = "ok"
    /\ reply.attr.kind = "RegularFile"
    /\ reply.attr.size = 1
    /\ getattr_replies(reply.attr.ino) = {reply}
    /\ lookup_reply(1, call.name) = reply
    /\ reply.attr.ino \in DOMAIN data_table
    /\ data_table[reply.attr.ino] = <<0>>

\* mknod(1, "hello.txt") of a FIFO while hello.txt exists
C10_Witness ==
  /\ call.op = "mknod" /\ call.ino = 1
  /\ call.name = "hello.txt" /\ call.mode = 4516
  /\ reply.status = "ok"
  /\ 2 \in DOMAIN data_table

\* C11, for the states in which lookup_table holds the root's ".": open,
\* write, flush and release reply EntryNotFound exactly when data_table does
\* not hold the inode; when it does, open, flush and release acknowledge, and
\* a write at an offset within the blob replies the length of the bytes it
\* was given
C11_NotFoundIffNoBlob ==
  [][(call'.op \in {"open", "write", "flush", "release"}
        /\ "." \in DOMAIN lookup_table) =>
       /\ (reply' = ReplyError) <=> (call'.ino \notin DOMAIN data_table)
       /\ (call'.ino \in DOMAIN data_table /\ call'.op # "write") =>
            reply' = ReplyEmpty
       /\ (/\ call'.ino \in DOMAIN data_table
           /\ call'.op = "write"
           /\ call'.offset <= Len(data_table[call'.ino])) =>
            reply' = ReplyWritten(Len(call'.data))]_vars

C13_BlobHasPathAndEntry ==
  \A i \in DOMAIN data_table :
    /\ i \in DOMAIN path_table
    /\ \E k \in DOMAIN lookup_table : lookup_table[k].ino = i

\* C14: every inode data_table holds was given out by the allocator, above 1
\* and not above last_inode, one new inode per creation since FS::default;
\* data_table never loses an inode; and the inode a
\* mknod replies is above last_inode, hence above every inode given out
\* before, and becomes last_inode
C14_InodesIncrease ==
  /\ [](/\ \A i \in DOMAIN data_table : 1 < i /\ i <= last_inode
        /\ Cardinality(DOMAIN data_table) = last_inode - default.li)
  /\ [][/\ DOMAIN data_table \subseteq DOMAIN data_table'
        /\ last_inode <= last_inode'
        /\ (call'.op = "mknod" /\ reply'.status = "ok") =>
             /\ reply'.attr.ino > last_inode
             /\ reply'.attr.ino = last_inode'
             /\ reply'.attr.ino \notin DOMAIN data_table
             /\ reply'.attr.ino \notin LiveInodes
             /\ DOMAIN data_table' = (DOMAIN data_table) \cup {reply'.attr.ino}
       ]_vars

\* mknod of a name that exists, after a file was unlinked
C14_Witness ==
  /\ call.op = "mknod" /\ reply.status = "ok"
  /\ reply.attr.ino = 4
  /\ call.name = "amongus.txt"
  /\ "hello.txt" \notin DOMAIN lookup_table
  /\ DOMAIN data_table = {2, 3, 4}

\* C15: no two namespace entries carry the same inode, and path_table maps
\* the inode of every regular-file entry to the name of that entry
C15_InodesUniqueAndNamed ==
  /\ \A k1, k2 \in DOMAIN lookup_table :
       lookup_table[k1].ino = lookup_table[k2].ino => k1 = k2
  /\ \A k \in DOMAIN lookup_table :
       lookup_table[k].kind = "RegularFile" =>
         /\ lookup_table[k].ino \in DOMAIN path_table
         /\ path_table[lookup_table[k].ino] = k

\* hello.txt created again as inode 4 and written, amongus.txt unlinked
C15_Witness ==
  /\ "hello.txt" \in DOMAIN lookup_table
  /\ lookup_table["hello.txt"].ino = 4
  /\ "amongus.txt" \notin DOMAIN lookup_table
  /\ nwrites = 1

\* C16: a callback that replies EntryNotFound leaves lookup_table (the root's
\* size and blocks too), data_table, path_table and last_inode as they were
C16_NotFoundChangesNothing ==
  [][reply'.status = "ENOENT" => UNCHANGED stores]_vars

\* write of inode 0, which path_table maps to "." and data_table lacks,
\* answered EntryNotFound
C16_Witness ==
  /\ call.op = "write" /\ call.ino = 0
  /\ reply = ReplyError
  /\ "." \in DOMAIN lookup_table

\* C17: right after a successful open, flush or release, a further open,
\* flush or release of any inode of data_table acknowledges and leaves
\* struct FS as it is, and the root's blocks are size div 512 plus 1
C17_RecomputeIdempotent ==
  (call.op \in {"open", "flush", "release"} /\ reply.status = "ok") =>
    /\ \A i \in DOMAIN data_table :
         /\ open_outcome(i) = Untouched(ReplyEmpty)
         /\ flush_outcome(i) = Untouched(ReplyEmpty)
         /\ release_outcome(i) = Untouched(ReplyEmpty)
    /\ lookup_table["."].blocks = (lookup_table["."].size \div 512) + 1
    /\ lookup_table["."].blocks >= 1

\* a flush acknowledged after a write and an unlink
C17_Witness ==
  /\ call.op = "flush" /\ reply.status = "ok"
  /\ nwrites = 1
  /\ lookup_table["."].size > 0
  /\ (DOMAIN data_table) \ LiveInodes # {}

\* inode i lost its namespace entry by unlink and its name has not been
\* created again: i is the last inode created under its name, and the name
\* has no entry
Unlinked(i) ==
  /\ i \in DOMAIN data_table
  /\ i \in DOMAIN path_table
  /\ path_table[i] \notin DOMAIN lookup_table
  /\ \A j \in DOMAIN path_table : path_table[j] = path_table[i] => j <= i

\* C18, for the inodes whose name has not been created again: after the
\* unlink getattr of the inode replies EntryNotFound, while open, flush and
\* release of it acknowledge and read at offset 0 replies its blob
C18_UnlinkedStillServed ==
  \A i \in DOMAIN data_table :
    Unlinked(i) =>
      /\ getattr_replies(i) = {ReplyError}
      /\ (call.op \in {"open", "flush", "release"} /\ call.ino = i) =>
           reply = ReplyEmpty
      /\ (call.op = "read" /\ call.ino = i /\ call.offset = 0) =>
           reply = ReplyData(data_table[i])

\* C19: the size of every regular-file namespace entry whose inode has a
\* blob is the length of that blob
C19_SizeIsBlobLength ==
  \A k \in DOMAIN lookup_table :
    (lookup_table[k].kind = "RegularFile"
       /\ lookup_table[k].ino \in DOMAIN data_table) =>
      lookup_table[k].size = Len(data_table[lookup_table[k].ino])

\* C20: a successful write of inode i leaves the blob of every other inode
\* and the record of every namespace entry of another inode (the root's
\* apart) as they were, and path_table and last_inode too
C20_WriteFrame ==
  [][(call'.op = "write" /\ reply'.status = "ok") =>
       /\ DOMAIN data_table' = DOMAIN data_table
       /\ \A j \in (DOMAIN data_table) \ {call'.ino} :
            data_table'[j] = data_table[j]
       /\ DOMAIN lookup_table' = DOMAIN lookup_table
       /\ \A k \in (DOMAIN lookup_table) \ {"."} :
            lookup_table[k].ino # call'.ino => lookup_table'[k] = lookup_table[k]
       /\ UNCHANGED <<path_table, last_inode>>]_vars

====
